---- MODULE Spec2Model ----
(***************************************************************************)
(* A model of otsuwinhdlr.classes: Window with the class-level handle      *)
(* registry Window.handlers, acquisition by title (Window.__init__),       *)
(* liveness (__bool__), close, join, move/resize, refresh and the          *)
(* properties, and the subclasses RecycleBinFolder and Explorer, run       *)
(* against an operating system whose windows open, close, get disabled,    *)
(* change their title and have their handle values reused on their own.    *)
(*                                                                         *)
(* A call is a sequence of steps. A step makes at most one call of User32, *)
(* and the time.sleep(0.05) that Window.close begins with (line 59) ends   *)
(* the step before it: the OS moves between any two calls of User32 and    *)
(* while close sleeps.                                                     *)
(*                                                                         *)
(* Spec         : one thread of control constructs Window objects and      *)
(*                calls bool, close, join, move_window, set_position,      *)
(*                set_size, refresh and reads size. The reads of handler,  *)
(*                rect and title change nothing: they are in SpecVariants. *)
(* SpecWatched  : Spec with the history of the closes and joins made.      *)
(* SpecWide     : Spec with one more object and one more handle value, the *)
(*                least size at which a constructor meets a live and a     *)
(*                stale entry of two other objects.                        *)
(* SpecMove     : Spec with several places and extents to move and resize  *)
(*                a window to.                                             *)
(* SpecVariants : one object at a time of class Window, RecycleBinFolder   *)
(*                or Explorer, the subclass constructors line by line,     *)
(*                every operation and property, and an OS that also        *)
(*                changes titles. With one object no constructor finds a   *)
(*                registered handle, so line 34 is not reached here.       *)
(* SpecJoin     : SpecVariants where a thread that is in join keeps        *)
(*                running (weak fairness of join's steps).                 *)
(* SpecRace     : two threads run the constructor for the same title, one  *)
(*                source line per step.                                    *)
(***************************************************************************)
(***************************************************************************)
EXTENDS Integers, Sequences, FiniteSets, TLC

\* Number of window objects the program constructs.
NObj == 2
\* Number of distinct handle values the OS hands out.
NH == 1
\* Number of iterations Timer(seconds=timeout_seconds).wiggle_begin(span_seconds)
\* yields before it is exhausted (timeout_seconds / span_seconds).
MaxPolls == 2

Titles == {"Calc", "Memo"}
\* 'ごみ箱', the title of the recycle bin's window (line 177).
TrashTitle == "Trash"
\* The names of the folders Explorer objects are made for.
Folders == {"Memo"}
\* The titles windows have where RecycleBinFolder and Explorer objects are made.
VariantTitles == Folders \cup {TrashTitle}
\* The positions and extents callers pass in SpecMove.
PlacesWide == {<<0, 0>>, <<2, 1>>}
ExtentsWide == {<<1, 1>>, <<2, 3>>}
\* The positions (x, y) and the extents (width, height) callers pass to
\* move_window, set_position and set_size.
Places == {<<0, 0>>}
Extents == {<<1, 1>>}
\* The title both racing constructors ask for in SpecRace.
RaceTitle == "Calc"

VARIABLES
    handlers,   \* Window.handlers: the dict, as the sequence of its items in insertion order
    hdlr,       \* hdlr[o]: self.__hdlr of object o; 0 while the attribute is not set
    st,         \* st[o]: where object o's thread of control stands
    acq,        \* acq[o]: the running constructor's title and remaining polls; history: whether
                \* every poll so far found no window (miss), the registry when it began (reg0)
    loc,        \* loc[o]: the constructor's local variable hdlr while it matters (from
                \* line 33 on)
    win,        \* win[h]: the OS window behind handle value h
    closed,     \* history: closed[o] tells that Window.close has run on o, for the
                \* objects a specification keeps the history of
    joined,     \* history: joined[o] tells that a join of o has returned
    cls,        \* cls[o]: the class of object o, the attributes its subclass keeps
                \* (first_title, allow_chdir), the constructor's argument allow_chdir;
                \* history: explorer was launched for it
    frame,      \* frame[o]: the local variables of the call that runs on object o, and of
                \* the Window.refresh its constructor called; frame[0]: those of
                \* Window.refresh called on the class
    last        \* what the last step of the program did and returned

vars == <<handlers, hdlr, st, acq, loc, win, closed, joined, cls, frame, last>>

\* The objects and the handle values of the run: those the initial state has.
Objs == DOMAIN st
Handles == DOMAIN win

----------------------------------------------------------------------------
(* The OS capability (User32).                                             *)

\* The rectangle (left, top, right, bottom) the OS gives a window it opens.
DefaultRect == <<0, 0, 1, 1>>
NoRect == <<0, 0, 0, 0>>

NoWindow == [exists |-> FALSE, enabled |-> FALSE, title |-> "Calc", rect |-> NoRect]

\* User32.FindWindowExW(None, None, None, title): the values it may return. The
\* first match in the OS's enumeration order, which the program does not control,
\* or 0 when no window has the title.
FindWindowExW(w, title) ==
    LET m == {h \in DOMAIN w : w[h].exists /\ w[h].title = title}
    IN  IF m = {} THEN {0} ELSE m

\* User32.IsWindowEnabled(h): false for a handle value no window has.
IsWindowEnabled(w, h) ==
    h \in DOMAIN w /\ w[h].exists /\ w[h].enabled

\* User32.SendMessageW(h, WM_CLOSE, 0, 0): the window behind h, if any, closes
\* when it honours the message (h \in honour) and stays otherwise.
SendMessageW(w, h, honour) ==
    IF h \in DOMAIN w /\ w[h].exists /\ h \in honour
    THEN [w EXCEPT ![h] = NoWindow]
    ELSE w

\* User32.GetWindowTextW(h): the title of the window behind h, the empty string
\* for a handle value no window has.
GetWindowTextW(w, h) ==
    IF h \in DOMAIN w /\ w[h].exists THEN w[h].title ELSE ""

\* User32.GetWindowRect(h): (left, top, right, bottom) of the window behind h,
\* the zero rectangle for a handle value no window has.
GetWindowRect(w, h) ==
    IF h \in DOMAIN w /\ w[h].exists THEN w[h].rect ELSE NoRect

\* User32.MoveWindow(h, x, y, width, height, True): the window behind h, if
\* any, gets the rectangle; the OS takes a negative extent as 0.
User32MoveWindow(w, h, x, y, width, height) ==
    IF h \in DOMAIN w /\ w[h].exists
    THEN [w EXCEPT ![h].rect = <<x, y,
                                 x + (IF width < 0 THEN 0 ELSE width),
                                 y + (IF height < 0 THEN 0 ELSE height)>>]
    ELSE w

----------------------------------------------------------------------------
(* The dict Window.handlers.                                               *)

Keys(reg) == {reg[i].k : i \in 1..Len(reg)}

\* handlers[h]
Lookup(reg, h) == (CHOOSE i \in 1..Len(reg) : reg[i].k = h)

Owner(reg, h) == reg[Lookup(reg, h)].v

\* handlers[h] = o: a present key keeps its place and gets the new value.
DictSet(reg, h, o) ==
    IF h \in Keys(reg)
    THEN [reg EXCEPT ![Lookup(reg, h)] = [k |-> h, v |-> o]]
    ELSE Append(reg, [k |-> h, v |-> o])

\* del handlers[h]
DictDel(reg, h) == SelectSeq(reg, LAMBDA e : e.k # h)

----------------------------------------------------------------------------
(* Window's methods as functions of the state they read.                   *)

\* Window.__bool__ without its registry test (lines 46-47 left out).
BoolNoRegistry(o, reg, w, hd) == IsWindowEnabled(w, hd[o])

\* Window.__bool__, lines 45-48: one call of User32.
Bool(o, reg, w, hd) ==
    IF hd[o] \notin Keys(reg)
    THEN FALSE
    ELSE IsWindowEnabled(w, hd[o])

\* RecycleBinFolder.__bool__, lines 181-184: two calls of User32, one per step.
\* half tells that super().__bool__() has returned True in an earlier step and
\* GetWindowTextW is the call to make; "half" is the outcome of a step after
\* which it is.
RecycleBinFolderBool(o, reg, w, hd, half) ==
    IF ~half
    THEN IF ~Bool(o, reg, w, hd) THEN "False" ELSE "half"
    ELSE IF GetWindowTextW(w, hd[o]) = cls[o].first THEN "True" ELSE "False"

\* Explorer.__bool__ without its allow_chdir test (lines 225-226 left out).
ExplorerBoolNoChdir(o, reg, w, hd, half) ==
    IF ~half
    THEN IF ~Bool(o, reg, w, hd) THEN "False" ELSE "half"
    ELSE IF GetWindowTextW(w, hd[o]) = cls[o].first THEN "True" ELSE "False"

\* Explorer.__bool__, lines 222-227.
ExplorerBool(o, reg, w, hd, half) ==
    IF ~half
    THEN IF ~Bool(o, reg, w, hd) THEN "False"
         ELSE IF cls[o].chdir = "True" THEN "True"
         ELSE "half"
    ELSE IF GetWindowTextW(w, hd[o]) = cls[o].first THEN "True" ELSE "False"

\* bool(o), `if not self`, `while self`: Python calls the __bool__ of o's class.
Truth(o, reg, w, hd, half) ==
    CASE cls[o].kind = "RecycleBinFolder" -> RecycleBinFolderBool(o, reg, w, hd, half)
      [] cls[o].kind = "Explorer" -> ExplorerBool(o, reg, w, hd, half)
      [] OTHER -> IF Bool(o, reg, w, hd) THEN "True" ELSE "False"

\* Window.close after its sleep, lines 60-63, on the state s of a step (the
\* registry, the windows, the handles WM_CLOSE was sent to, the objects closed):
\* the message is sent, then the key is deleted if present.
CloseOn(o, s, hd, honour) ==
    [s EXCEPT !.win = SendMessageW(s.win, hd[o], honour),
              !.sent = s.sent \cup {hd[o]},
              !.reg = IF hd[o] \in Keys(s.reg) THEN DictDel(s.reg, hd[o]) ELSE s.reg,
              !.shut = s.shut \cup {o}]

\* The window a close may send WM_CLOSE to, which may honour it or not.
MayClose(o, w, hd) == SUBSET {h \in {hd[o]} : h \in DOMAIN w /\ w[h].exists}

Start(reg, w) == [reg |-> reg, win |-> w, sent |-> {}, shut |-> {}]

\* The locals of a call. op: the method; half: its liveness test has made the
\* first of its two calls of User32; x, y, w, h: the arguments and locals of
\* lines 90, 113-114 and 129-130; sent, shut: history, the handles the call has
\* sent WM_CLOSE to and the objects it has closed; ref, pos, used, wd: where
\* Window.refresh stands ("no": it is not running), the place of the dict's
\* iterator, the size the dict had when the iterator was made, and the object
\* the loop is at.
NoFrame == [op |-> "none", half |-> FALSE, x |-> 0, y |-> 0, w |-> 0, h |-> 0,
            sent |-> {}, shut |-> {}, ref |-> "no", pos |-> 0, used |-> 0, wd |-> 0]

\* Line 96, `for wd in cls.handlers.values()`, is entered: the iterator is made.
RefreshBegun(reg) ==
    [NoFrame EXCEPT !.op = "refresh", !.ref = "line96", !.pos = 1, !.used = Len(reg)]

\* Line 96 asks the iterator for the next value: the iterator raises
\* RuntimeError once the size of the dict differs from the one it remembers; the
\* loop ends ("None") after the last item; `if not wd` (line 97) raises
\* AttributeError from self.handler for an object whose attribute is not set.
RefreshAt(f, reg, hd) ==
    IF f.used # Len(reg) THEN "RuntimeError"
    ELSE IF f.pos > Len(reg) THEN "None"
    ELSE IF hd[reg[f.pos].v] = 0 THEN "AttributeError"
    ELSE "line97"

\* One step of Window.refresh, lines 96-98, with the locals f: the iterator's
\* next value and the liveness test's first call of User32 (lines 96-97), or the
\* test's second call, or cls.close(wd) after its sleep (line 98). out is
\* where refresh stands afterwards ("line96", "line97": in the liveness test,
\* "line98": in close's sleep) or how it ended ("None" or the exception).
RefreshStep(f, reg, w, hd, honour) ==
    LET tested(wd) ==
            LET t == Truth(wd, reg, w, hd, f.half)
            IN  CASE t = "half" ->
                       [f |-> [f EXCEPT !.half = TRUE, !.wd = wd, !.ref = "line97"],
                        reg |-> reg, win |-> w, out |-> "line97"]
                  [] t = "False" ->
                       [f |-> [f EXCEPT !.half = FALSE, !.wd = wd, !.ref = "line98"],
                        reg |-> reg, win |-> w, out |-> "line98"]
                  [] OTHER ->
                       [f |-> [f EXCEPT !.half = FALSE, !.wd = 0, !.ref = "line96",
                                        !.pos = @ + 1],
                        reg |-> reg, win |-> w, out |-> "line96"]
    IN  CASE f.ref = "line98" ->
               LET s == CloseOn(f.wd, Start(reg, w), hd, honour)
               IN  [f |-> [f EXCEPT !.ref = "line96", !.wd = 0, !.pos = @ + 1,
                                    !.sent = @ \cup s.sent, !.shut = @ \cup s.shut],
                    reg |-> s.reg, win |-> s.win, out |-> "line96"]
          [] f.ref = "line97" -> tested(f.wd)
          [] OTHER ->
               IF RefreshAt(f, reg, hd) # "line97"
               THEN [f |-> f, reg |-> reg, win |-> w, out |-> RefreshAt(f, reg, hd)]
               ELSE tested(reg[f.pos].v)

\* The windows the step of refresh may send WM_CLOSE to.
RefreshMayClose(f, w, hd) == IF f.ref = "line98" THEN MayClose(f.wd, w, hd) ELSE {{}}

RefreshGoesOn(out) == out \in {"line96", "line97", "line98"}

----------------------------------------------------------------------------
(* Lines 32-33 and 38-40 of the constructor's loop.                        *)

\* What the iteration does with the handle FindWindowExW returned (found):
\* out is "continue" (the loop goes on), "break" (registered: the constructor
\* returns) or "line34" (the handle is registered: Window.refresh is called).
\* The iteration with line 40's break left out: a handle that is not registered
\* is registered and the loop goes on.
PollBodyNoBreak(o, reg, found) ==
    IF found # 0 /\ found \notin Keys(reg)
    THEN [reg |-> DictSet(reg, found, o), out |-> "continue"]
    ELSE [reg |-> reg, out |-> IF found = 0 THEN "continue" ELSE "line34"]

\* The iteration with line 38 moved before line 33: the handle is registered to
\* the new object before Window.refresh is called.
PollBodyRegisterFirst(o, reg, found) ==
    IF found = 0
    THEN [reg |-> reg, out |-> "continue"]
    ELSE IF found \in Keys(reg)
         THEN [reg |-> DictSet(reg, found, o), out |-> "line34"]
         ELSE [reg |-> DictSet(reg, found, o), out |-> "break"]

PollBody(o, reg, found) ==
    IF found = 0
    THEN [reg |-> reg, out |-> "continue"]
    ELSE IF found \in Keys(reg)
         THEN [reg |-> reg, out |-> "line34"]
         ELSE [reg |-> DictSet(reg, found, o), out |-> "break"]

\* A timer that gives up one poll early.
TimerExhaustedEarly(a) == a.left <= 1

\* Line 31: the Timer's generator is exhausted, so the for loop's else clause
\* (lines 41-43) runs.
TimerExhausted(a) == a.left = 0

----------------------------------------------------------------------------
(* The state machine.                                                      *)

NoAcq == [title |-> "Calc", left |-> 0, miss |-> TRUE, reg0 |-> << >>]

\* op: the call; obj: the object it was made on; ret: what it returned or
\* raised, or where the call stands when the step did not end it ("continue",
\* "sleep", "half", "line...": the call goes on); sent: the handles the call has
\* sent WM_CLOSE to; moved: User32.MoveWindow was called, with
\* (x, y, width, height) = args; val, text: the numbers or the string an
\* accessor returned; found: what FindWindowExW returned; dup: line 33 found it
\* in the registry; left, miss, same: when the constructor raised TimeoutError,
\* the polls the timer had left, whether every poll found no window, and
\* whether the registry is what it was when the constructor began.
Quiet == [op |-> "os", obj |-> 0, ret |-> "None", sent |-> {},
          moved |-> FALSE, found |-> 0, dup |-> FALSE, left |-> 0, miss |-> FALSE,
          same |-> TRUE, args |-> << >>, val |-> << >>, text |-> ""]

Did(op, o, ret, sent) == [Quiet EXCEPT !.op = op, !.obj = o, !.ret = ret, !.sent = sent]

\* An object of class Window: it has no first_title and no allow_chdir.
NoCls == [kind |-> "Window", first |-> "", chdir |-> "unset", allow |-> "unset",
          launched |-> FALSE]

\* No call is in progress: the one thread of control is between two calls.
Idle ==
    /\ \A o \in Objs : st[o] \in {"none", "ok"}
    /\ frame[0].ref = "no"

\* Objects are numbered in the order they are constructed. A constructor that
\* raises leaves no object behind: its number is free again ("none").
NextObj(o) == st[o] = "none" /\ \A p \in Objs : p < o => st[p] # "none"

\* The history h with the objects objs noted in it.
Noted(h, objs) == [o \in DOMAIN h |-> h[o] \/ o \in objs]

\* The class is loaded (handlers = {}), no object is constructed, no window is
\* open; objs and handles are the objects and handle values of the run, and
\* watched the objects whose closes and joins the history keeps.
InitOf(objs, handles, watched) ==
    /\ handlers = << >>
    /\ hdlr = [o \in objs |-> 0]
    /\ st = [o \in objs |-> "none"]
    /\ acq = [o \in objs |-> NoAcq]
    /\ loc = [o \in objs |-> 0]
    /\ win = [h \in handles |-> NoWindow]
    /\ closed = [o \in watched |-> FALSE]
    /\ joined = [o \in watched |-> FALSE]
    /\ cls = [o \in objs |-> NoCls]
    /\ frame = [o \in objs \cup {0} |-> NoFrame]
    /\ last = Quiet

\* Two objects at most and one handle value; no history is kept.
Init == InitOf(1..NObj, 1..NH, {})

\* The same, with the history of the closes and joins of every object.
InitWatched == InitOf(1..NObj, 1..NH, 1..NObj)

InitWide == InitOf(1..(NObj + 1), 1..(NH + 1), {})

\* Window(title, timeout_seconds, span_seconds) is called: lines 29-31.
StartInit(o, t) ==
    /\ Idle
    /\ NextObj(o)
    /\ st' = [st EXCEPT ![o] = "init"]
    /\ acq' = [acq EXCEPT ![o] = [title |-> t, left |-> MaxPolls, miss |-> TRUE,
                                   reg0 |-> handlers]]
    /\ last' = Did("new", o, "None", {})
    /\ UNCHANGED <<handlers, hdlr, loc, win, closed, joined, cls, frame>>

\* Where a constructor that has registered its object stands: Window.__init__
\* returns to the caller or to line 219 of Explorer.__init__.
Registered(o) == IF cls[o].kind = "Explorer" THEN "line219" ELSE "ok"

\* One iteration of the loop of Window.__init__ up to the call of
\* Window.refresh: the timer yields, FindWindowExW is called, and lines 32-33
\* and 38-40 run.
Poll(o) ==
    /\ st[o] = "init"
    /\ ~TimerExhausted(acq[o])
    /\ \E found \in FindWindowExW(win, acq[o].title) :
         LET r == PollBody(o, handlers, found)
         IN  /\ handlers' = r.reg
             /\ hdlr' = IF r.out = "break" THEN [hdlr EXCEPT ![o] = found] ELSE hdlr
             /\ loc' = [loc EXCEPT ![o] = IF r.out = "line34" THEN found ELSE 0]
             /\ st' = [st EXCEPT ![o] = CASE r.out = "break" -> Registered(o)
                                          [] r.out = "continue" -> "init"
                                          [] OTHER -> "line34"]
             /\ acq' = [acq EXCEPT ![o] = IF r.out = "break"
                                          THEN NoAcq
                                          ELSE [@ EXCEPT !.left = @ - 1,
                                                         !.miss = @ /\ found = 0]]
             /\ last' = [Did("init", o, IF r.out = "break" THEN "None" ELSE r.out, {})
                            EXCEPT !.found = found, !.dup = (r.out = "line34")]
    /\ UNCHANGED <<win, closed, joined, cls, frame>>

\* A step of the Window.refresh the constructor called at line 34 and, when
\* the step ends refresh, lines 35-40: an exception leaves the constructor, a
\* handle that is still registered makes the loop go on, and one that is not
\* is registered to the new object.
PollRefresh(o) ==
    /\ st[o] = "line34"
    /\ LET f == IF frame[o].ref = "no" THEN RefreshBegun(handlers) ELSE frame[o]
       IN  \E honour \in RefreshMayClose(f, win, hdlr) :
             LET r == RefreshStep(f, handlers, win, hdlr, honour)
                 raised == r.out \in {"RuntimeError", "AttributeError"}
                 registers == r.out = "None" /\ loc[o] \notin Keys(r.reg)
                 goeson == RefreshGoesOn(r.out)
             IN  /\ handlers' = IF registers THEN DictSet(r.reg, loc[o], o) ELSE r.reg
                 /\ win' = r.win
                 /\ closed' = Noted(closed, r.f.shut)
                 /\ hdlr' = IF registers THEN [hdlr EXCEPT ![o] = loc[o]] ELSE hdlr
                 /\ st' = [st EXCEPT ![o] = CASE goeson -> "line34"
                                              [] raised -> "none"
                                              [] registers -> Registered(o)
                                              [] OTHER -> "init"]
                 /\ frame' = [frame EXCEPT ![o] = IF goeson THEN r.f ELSE NoFrame]
                 /\ loc' = [loc EXCEPT ![o] = IF goeson THEN @ ELSE 0]
                 /\ acq' = [acq EXCEPT ![o] = IF raised \/ registers THEN NoAcq ELSE @]
                 /\ cls' = [cls EXCEPT ![o] = IF raised THEN NoCls ELSE @]
                 /\ last' = [Did("init", o,
                                 CASE goeson -> "line34"
                                   [] raised -> r.out
                                   [] registers -> "None"
                                   [] OTHER -> "continue",
                                 r.f.sent)
                                EXCEPT !.found = loc[o], !.dup = TRUE]
    /\ UNCHANGED joined

\* The loop ended without break: lines 41-43 raise TimeoutError.
InitTimeout(o) ==
    /\ st[o] = "init"
    /\ TimerExhausted(acq[o])
    /\ st' = [st EXCEPT ![o] = "none"]
    /\ acq' = [acq EXCEPT ![o] = NoAcq]
    /\ last' = [Did("init", o, "TimeoutError", {})
                    EXCEPT !.left = acq[o].left, !.miss = acq[o].miss,
                           !.same = (handlers = acq[o].reg0)]
    /\ cls' = [cls EXCEPT ![o] = NoCls]
    /\ UNCHANGED <<handlers, hdlr, loc, win, closed, joined, frame>>

\* A step of a call that runs on object o. s: the registry, the windows and
\* what the step sent and closed; pc: where the call stands afterwards ("ok":
\* it has returned); fr: its locals; l: what the step did.
Stepped(o, s, pc, fr, l) ==
    /\ handlers' = s.reg
    /\ win' = s.win
    /\ closed' = Noted(closed, s.shut)
    /\ st' = [st EXCEPT ![o] = pc]
    /\ frame' = [frame EXCEPT ![o] = IF pc = "ok" THEN NoFrame ELSE fr]
    /\ joined' = IF l.op = "join" /\ l.ret = "None" THEN Noted(joined, {o}) ELSE joined
    /\ last' = l
    /\ UNCHANGED <<hdlr, acq, loc, cls>>

\* Where a call goes from the liveness test of line T whose step gave t: it
\* stays in the test ("half"), or takes the line after it.
Dest(T, t) ==
    CASE t = "half" -> T
      [] T = "line45" -> "ok"
      [] T = "line71" -> IF t = "True" THEN "joining" ELSE "line73"
      [] T = "line87" -> IF t = "True" THEN "line90" ELSE "line88"
      [] T = "line110" -> IF t = "True" THEN "line113" ELSE "line111"
      [] T = "line126" -> IF t = "True" THEN "line129" ELSE "line127"
      [] OTHER -> IF t = "True" THEN "line154" ELSE "line152"

\* A step of the liveness test of line T (bool(self), `while self`,
\* `if not self`) of the call with the locals fr: one call of User32. bool
\* returns the value; join sleeps (line 72) after True.
Check(o, T, fr) ==
    LET t == Truth(o, handlers, win, hdlr, fr.half)
        pc == Dest(T, t)
        ret == CASE T = "line45" -> t
                 [] T = "line71" /\ t = "True" -> "sleep"
                 [] OTHER -> pc
    IN  Stepped(o, Start(handlers, win), pc, [fr EXCEPT !.half = (t = "half")],
                Did(fr.op, o, ret, fr.sent))

\* self.close() of the running call after its sleep, lines 60-63; the call
\* then stands at pc with the locals fr, and ret and val are what it returned.
Closing(o, pc, fr, ret, val) ==
    \E honour \in MayClose(o, win, hdlr) :
        LET s == CloseOn(o, Start(handlers, win), hdlr, honour)
        IN  Stepped(o, s, pc,
                    [fr EXCEPT !.sent = @ \cup s.sent, !.shut = @ \cup s.shut],
                    [Did(fr.op, o, ret, fr.sent \cup s.sent) EXCEPT !.val = val])

\* bool(o) that cleans up after an object it finds not live, as size does.
BoolOpCleans(o) ==
    /\ Idle
    /\ st[o] = "ok"
    /\ IF Truth(o, handlers, win, hdlr, FALSE) = "False"
       THEN Closing(o, "ok", [NoFrame EXCEPT !.op = "bool"], "False", << >>)
       ELSE Check(o, "line45", [NoFrame EXCEPT !.op = "bool"])

\* bool(o) is called: the __bool__ of o's class up to its first call of User32.
BoolOp(o) ==
    /\ Idle
    /\ st[o] = "ok"
    /\ Check(o, "line45", [NoFrame EXCEPT !.op = "bool"])

\* The second call of User32 of a liveness test, GetWindowTextW (lines 184 and
\* 227), in the call that is in the test.
TitleCall(o) ==
    /\ st[o] \in {"line45", "line71", "line87", "line110", "line126", "line151"}
    /\ frame[o].half
    /\ Check(o, st[o], frame[o])

\* o.close(): Window.close, lines 59-63; ret "res" is SendMessageW's response.
Close(o) ==
    /\ Idle
    /\ st[o] = "ok"
    /\ \E honour \in MayClose(o, win, hdlr) :
         LET s == CloseOn(o, Start(handlers, win), hdlr, honour)
         IN  /\ handlers' = s.reg
             /\ win' = s.win
             /\ closed' = Noted(closed, s.shut)
             /\ last' = Did("close", o, "res", s.sent)
    /\ UNCHANGED <<hdlr, st, acq, loc, joined, cls, frame>>

\* Window.join without its while loop (lines 71-72 left out): on to close.
JoinNoLoop(o) ==
    /\ Idle
    /\ st[o] = "ok"
    /\ Stepped(o, Start(handlers, win), "line73", [NoFrame EXCEPT !.op = "join"],
               Did("join", o, "line73", {}))

\* o.join(): Window.join, line 71. One evaluation of the while condition: the
\* loop sleeps (line 72) while the object is live, and goes on to line 73 once
\* it is not.
Join(o) ==
    /\ \/ Idle /\ st[o] = "ok"
       \/ st[o] = "joining"
    /\ Check(o, "line71", [NoFrame EXCEPT !.op = "join"])

\* Line 73: self.close(), and join returns.
JoinClose(o) ==
    /\ st[o] = "line73"
    /\ Closing(o, "ok", frame[o], "None", << >>)

\* abs(), line 155.
Abs(n) == IF n < 0 THEN -n ELSE n

\* Lines 90, 114, 130: User32.MoveWindow(self.handler, x, y, width, height, True)
\* ends the call; ret "os" is what the OS returned.
MoveCall(o) ==
    LET f == frame[o]
    IN  Stepped(o, [Start(handlers, win) EXCEPT
                        !.win = User32MoveWindow(win, hdlr[o], f.x, f.y, f.w, f.h)],
                "ok", f,
                [Did(f.op, o, "os", f.sent) EXCEPT !.moved = TRUE,
                                                   !.args = <<f.x, f.y, f.w, f.h>>])

\* Window.move_window without its liveness test (lines 87-89 left out).
MoveWindowNoCheck(o, p, e) ==
    /\ Idle
    /\ st[o] = "ok"
    /\ Stepped(o, Start(handlers, win), "line90",
               [NoFrame EXCEPT !.op = "move_window", !.x = p[1], !.y = p[2],
                               !.w = e[1], !.h = e[2]],
               Did("move_window", o, "line90", {}))

\* o.move_window(x, y, n_width, n_height) is called, for the position p and
\* the extent e: line 87, `if not self`.
MoveWindow(o, p, e) ==
    /\ Idle
    /\ st[o] = "ok"
    /\ Check(o, "line87", [NoFrame EXCEPT !.op = "move_window", !.x = p[1], !.y = p[2],
                                          !.w = e[1], !.h = e[2]])

\* Lines 88-89: self.close() and return False.
MoveWindowClose(o) ==
    /\ st[o] = "line88"
    /\ Closing(o, "ok", frame[o], "False", << >>)

\* Line 90.
MoveWindowMove(o) ==
    /\ st[o] = "line90"
    /\ MoveCall(o)

\* o.set_position(x, y) is called: line 110, `if not self`.
SetPosition(o, p) ==
    /\ Idle
    /\ st[o] = "ok"
    /\ Check(o, "line110", [NoFrame EXCEPT !.op = "set_position", !.x = p[1], !.y = p[2]])

\* Lines 111-112: self.close() and return False.
SetPositionClose(o) ==
    /\ st[o] = "line111"
    /\ Closing(o, "ok", frame[o], "False", << >>)

\* Line 113 enters self.size: line 151, `if not self`.
SetPositionSizeCheck(o) ==
    /\ st[o] = "line113"
    /\ Check(o, "line151", frame[o])

\* Lines 152-153 of size: self.close() and return -1, -1, to the caller that
\* read the property or to line 113 of set_position (w, h = self.size).
SizeClose(o) ==
    /\ st[o] = "line152"
    /\ IF frame[o].op = "size"
       THEN Closing(o, "ok", frame[o], "value", <<-1, -1>>)
       ELSE Closing(o, "line114", [frame[o] EXCEPT !.w = -1, !.h = -1], "line114", << >>)

\* Lines 154-155 of size: self.rect and the absolute differences.
SizeRect(o) ==
    /\ st[o] = "line154"
    /\ LET r == GetWindowRect(win, hdlr[o])
           f == frame[o]
           width == Abs(r[1] - r[3])
           height == Abs(r[2] - r[4])
       IN  IF f.op = "size"
           THEN Stepped(o, Start(handlers, win), "ok", f,
                        [Did("size", o, "value", f.sent) EXCEPT !.val = <<width, height>>])
           ELSE Stepped(o, Start(handlers, win), "line114",
                        [f EXCEPT !.w = width, !.h = height],
                        Did(f.op, o, "line114", f.sent))

\* Line 114: User32.MoveWindow(self.handler, x, y, w, h, True).
SetPositionMove(o) ==
    /\ st[o] = "line114"
    /\ MoveCall(o)

\* o.set_size(width, height) is called: line 126, `if not self`.
SetSize(o, e) ==
    /\ Idle
    /\ st[o] = "ok"
    /\ Check(o, "line126", [NoFrame EXCEPT !.op = "set_size", !.w = e[1], !.h = e[2]])

\* Lines 127-128: self.close() and return False.
SetSizeClose(o) ==
    /\ st[o] = "line127"
    /\ Closing(o, "ok", frame[o], "False", << >>)

\* Line 129: x, y, *_ = self.rect.
SetSizeRect(o) ==
    /\ st[o] = "line129"
    /\ LET r == GetWindowRect(win, hdlr[o])
       IN  Stepped(o, Start(handlers, win), "line130",
                   [frame[o] EXCEPT !.x = r[1], !.y = r[2]],
                   Did("set_size", o, "line130", frame[o].sent))

\* Line 130: User32.MoveWindow(self.handler, x, y, width, height, True).
SetSizeMove(o) ==
    /\ st[o] = "line130"
    /\ MoveCall(o)

\* Window.refresh(), called on the class: a step of lines 96-98.
RefreshOp ==
    /\ \/ Idle
       \/ frame[0].ref # "no"
    /\ LET f == IF frame[0].ref = "no" THEN RefreshBegun(handlers) ELSE frame[0]
       IN  \E honour \in RefreshMayClose(f, win, hdlr) :
             LET r == RefreshStep(f, handlers, win, hdlr, honour)
             IN  /\ handlers' = r.reg
                 /\ win' = r.win
                 /\ closed' = Noted(closed, r.f.shut)
                 /\ frame' = [frame EXCEPT ![0] = IF RefreshGoesOn(r.out) THEN r.f
                                                  ELSE NoFrame]
                 /\ last' = Did("refresh", 0, r.out, r.f.sent)
    /\ UNCHANGED <<hdlr, st, acq, loc, joined, cls>>

----------------------------------------------------------------------------
(* The properties of a window object.                                      *)

\* A read of a property of o that changes nothing; ret "value" stands for the
\* value returned, which is val (numbers) or text (a string).
Read(op, o, val, text) ==
    /\ Idle
    /\ st[o] = "ok"
    /\ last' = [Did(op, o, "value", {}) EXCEPT !.val = val, !.text = text]
    /\ UNCHANGED <<handlers, hdlr, st, acq, loc, win, closed, joined, cls, frame>>

\* o.handler, lines 132-136.
ReadHandler(o) == Read("handler", o, <<hdlr[o]>>, "")

\* o.rect, lines 138-145.
ReadRect(o) == Read("rect", o, GetWindowRect(win, hdlr[o]), "")

\* o.title, lines 157-161.
ReadTitle(o) == Read("title", o, << >>, GetWindowTextW(win, hdlr[o]))

\* o.first_title, lines 186-190 and 238-242: a Window has no such property.
ReadFirstTitle(o) ==
    /\ cls[o].kind # "Window"
    /\ Read("first_title", o, << >>, cls[o].first)

\* o.size is read, lines 147-151: `if not self`.
ReadSize(o) ==
    /\ Idle
    /\ st[o] = "ok"
    /\ Check(o, "line151", [NoFrame EXCEPT !.op = "size"])

----------------------------------------------------------------------------
(* The operating system, on its own.                                       *)

\* A window opens and gets the free handle value h, used before or not.
OsOpen(h, t) ==
    /\ ~win[h].exists
    /\ win' = [win EXCEPT ![h] = [exists |-> TRUE, enabled |-> TRUE, title |-> t,
                                    rect |-> DefaultRect]]
    /\ last' = Quiet
    /\ UNCHANGED <<handlers, hdlr, st, acq, loc, closed, joined, cls, frame>>

\* The user, or its process, closes a window.
OsClose(h) ==
    /\ win[h].exists
    /\ win' = [win EXCEPT ![h] = NoWindow]
    /\ last' = Quiet
    /\ UNCHANGED <<handlers, hdlr, st, acq, loc, closed, joined, cls, frame>>

\* A window is disabled (a modal dialog opens over it) or enabled again.
OsEnable(h) ==
    /\ win[h].exists
    /\ win' = [win EXCEPT ![h].enabled = ~@]
    /\ last' = Quiet
    /\ UNCHANGED <<handlers, hdlr, st, acq, loc, closed, joined, cls, frame>>

Os ==
    \/ \E h \in Handles, t \in Titles : OsOpen(h, t)
    \/ \E h \in Handles : OsClose(h)
    \/ \E h \in Handles : OsEnable(h)

\* Every call the one thread of control makes on class Window and its objects,
\* a step at a time, and the OS.
Next ==
    \/ \E o \in Objs, t \in Titles : StartInit(o, t)
    \/ \E o \in Objs : Poll(o)
    \/ \E o \in Objs : PollRefresh(o)
    \/ \E o \in Objs : InitTimeout(o)
    \/ \E o \in Objs : BoolOp(o)
    \/ \E o \in Objs : Close(o)
    \/ \E o \in Objs : Join(o)
    \/ \E o \in Objs : JoinClose(o)
    \/ \E o \in Objs, p \in Places, e \in Extents : MoveWindow(o, p, e)
    \/ \E o \in Objs : MoveWindowClose(o)
    \/ \E o \in Objs : MoveWindowMove(o)
    \/ \E o \in Objs, p \in Places : SetPosition(o, p)
    \/ \E o \in Objs : SetPositionClose(o)
    \/ \E o \in Objs : SetPositionSizeCheck(o)
    \/ \E o \in Objs : SizeClose(o)
    \/ \E o \in Objs : SizeRect(o)
    \/ \E o \in Objs : SetPositionMove(o)
    \/ \E o \in Objs, e \in Extents : SetSize(o, e)
    \/ \E o \in Objs : SetSizeClose(o)
    \/ \E o \in Objs : SetSizeRect(o)
    \/ \E o \in Objs : SetSizeMove(o)
    \/ \E o \in Objs : ReadSize(o)
    \/ RefreshOp
    \/ Os

Spec == Init /\ [][Next]_vars

SpecWatched == InitWatched /\ [][Next]_vars

SpecWide == InitWide /\ [][Next]_vars
----------------------------------------------------------------------------
(* RecycleBinFolder and Explorer.                                          *)

\* RecycleBinFolder(timeout_seconds, span_seconds) is called. Line 177 sets
\* first_title; the title Window.__init__ will look for is that one (line 179).
StartRecycleBinFolder(o) ==
    /\ Idle
    /\ NextObj(o)
    /\ cls' = [cls EXCEPT ![o] = [kind |-> "RecycleBinFolder", first |-> TrashTitle,
                                   chdir |-> "unset", allow |-> "unset",
                                   launched |-> FALSE]]
    /\ acq' = [acq EXCEPT ![o] = [NoAcq EXCEPT !.title = TrashTitle]]
    /\ st' = [st EXCEPT ![o] = "line178"]
    /\ last' = Did("RecycleBinFolder", o, "line178", {})
    /\ UNCHANGED <<handlers, hdlr, loc, win, closed, joined, frame>>

\* Explorer(path, allow_chdir, ..., title=...) that launches explorer before it
\* validates the path (lines 215 and 216 swapped).
StartExplorerLaunchFirst(o, valid, t, allow) ==
    /\ Idle
    /\ NextObj(o)
    /\ IF valid
       THEN /\ cls' = [cls EXCEPT ![o] = [kind |-> "Explorer", first |-> "",
                                          chdir |-> "unset", allow |-> allow,
                                          launched |-> FALSE]]
            /\ acq' = [acq EXCEPT ![o] = [NoAcq EXCEPT !.title = t]]
            /\ st' = [st EXCEPT ![o] = "line216"]
            /\ last' = Did("Explorer", o, "line216", {})
       ELSE /\ cls' = [cls EXCEPT ![o].launched = TRUE]
            /\ last' = Did("Explorer", o, "InvalidTarget", {})
            /\ UNCHANGED <<st, acq>>
    /\ UNCHANGED <<handlers, hdlr, loc, win, closed, joined, frame>>

\* Explorer(path, allow_chdir, ..., title=...) is called. Line 215 validates the
\* path: valid tells whether it is an existing directory, and the validator
\* raises when it is not; t is the title or, without one, path.name (line 217).
StartExplorer(o, valid, t, allow) ==
    /\ Idle
    /\ NextObj(o)
    /\ IF valid
       THEN /\ cls' = [cls EXCEPT ![o] = [kind |-> "Explorer", first |-> "",
                                          chdir |-> "unset", allow |-> allow,
                                          launched |-> FALSE]]
            /\ acq' = [acq EXCEPT ![o] = [NoAcq EXCEPT !.title = t]]
            /\ st' = [st EXCEPT ![o] = "line216"]
            /\ last' = Did("Explorer", o, "line216", {})
       ELSE /\ last' = Did("Explorer", o, "InvalidTarget", {})
            /\ UNCHANGED <<st, acq, cls>>
    /\ UNCHANGED <<handlers, hdlr, loc, win, closed, joined, frame>>

\* Lines 178 and 216: subprocess.Popen(['explorer', ...]).wait() returns, and
\* Window.__init__ is entered (lines 179 and 218; lines 29-31). The window the
\* launched process opens is the OS's step.
Launch(o) ==
    /\ st[o] \in {"line178", "line216"}
    /\ cls' = [cls EXCEPT ![o].launched = TRUE]
    /\ acq' = [acq EXCEPT ![o] = [title |-> @.title, left |-> MaxPolls, miss |-> TRUE,
                                   reg0 |-> handlers]]
    /\ st' = [st EXCEPT ![o] = "init"]
    /\ last' = Did("launch", o, "None", {})
    /\ UNCHANGED <<handlers, hdlr, loc, win, closed, joined, frame>>

\* Lines 219-220, after Window.__init__ returned: allow_chdir is set and
\* first_title is the title the OS reports now.
ExplorerFinish(o) ==
    /\ st[o] = "line219"
    /\ cls' = [cls EXCEPT ![o].chdir = cls[o].allow,
                          ![o].first = GetWindowTextW(win, hdlr[o])]
    /\ st' = [st EXCEPT ![o] = "ok"]
    /\ last' = Did("Explorer", o, "None", {})
    /\ UNCHANGED <<handlers, hdlr, acq, loc, win, closed, joined, frame>>

\* The title of a window changes: the user of an Explorer window goes to
\* another folder.
OsRetitle(h, t) ==
    /\ win[h].exists
    /\ win[h].title # t
    /\ win' = [win EXCEPT ![h].title = t]
    /\ last' = Quiet
    /\ UNCHANGED <<handlers, hdlr, st, acq, loc, closed, joined, cls, frame>>

OsVariants ==
    \/ \E h \in Handles, t \in VariantTitles : OsOpen(h, t)
    \/ \E h \in Handles : OsClose(h)
    \/ \E h \in Handles : OsEnable(h)
    \/ \E h \in Handles, t \in VariantTitles : OsRetitle(h, t)

NextVariants ==
    \/ \E o \in Objs, t \in Folders : StartInit(o, t)
    \/ \E o \in Objs : StartRecycleBinFolder(o)
    \/ \E o \in Objs, valid \in BOOLEAN, t \in Folders, allow \in {"True", "False"} :
          StartExplorer(o, valid, t, allow)
    \/ \E o \in Objs : Launch(o)
    \/ \E o \in Objs : Poll(o)
    \/ \E o \in Objs : InitTimeout(o)
    \/ \E o \in Objs : ExplorerFinish(o)
    \/ \E o \in Objs : BoolOp(o)
    \/ \E o \in Objs : TitleCall(o)
    \/ \E o \in Objs : ReadHandler(o)
    \/ \E o \in Objs : ReadRect(o)
    \/ \E o \in Objs : ReadTitle(o)
    \/ \E o \in Objs : ReadFirstTitle(o)
    \/ \E o \in Objs : ReadSize(o)
    \/ \E o \in Objs : SizeClose(o)
    \/ \E o \in Objs : SizeRect(o)
    \/ \E o \in Objs : Close(o)
    \/ \E o \in Objs : Join(o)
    \/ \E o \in Objs : JoinClose(o)
    \/ \E o \in Objs, p \in Places, e \in Extents : MoveWindow(o, p, e)
    \/ \E o \in Objs : MoveWindowClose(o)
    \/ \E o \in Objs : MoveWindowMove(o)
    \/ \E o \in Objs, p \in Places : SetPosition(o, p)
    \/ \E o \in Objs : SetPositionClose(o)
    \/ \E o \in Objs : SetPositionSizeCheck(o)
    \/ \E o \in Objs : SetPositionMove(o)
    \/ \E o \in Objs, e \in Extents : SetSize(o, e)
    \/ \E o \in Objs : SetSizeClose(o)
    \/ \E o \in Objs : SetSizeRect(o)
    \/ \E o \in Objs : SetSizeMove(o)
    \/ RefreshOp
    \/ OsVariants

\* One object at a time, of any of the three classes, and every operation on it.
InitVariants == InitOf({1}, 1..NH, {})

SpecVariants == InitVariants /\ [][NextVariants]_vars

\* The thread that is in join keeps running: it makes the next call of the
\* liveness test of line 71 after every sleep, and runs line 73 after it.
JoinLoop(o) ==
    \/ st[o] = "joining" /\ Join(o)
    \/ frame[o].op = "join" /\ TitleCall(o)
    \/ JoinClose(o)

SpecJoin == InitVariants /\ [][NextVariants]_vars /\ WF_vars(JoinLoop(1))

----------------------------------------------------------------------------
(* The calls of Next with several places and extents to move and resize to. *)

NextMove ==
    \/ \E o \in Objs, t \in Titles : StartInit(o, t)
    \/ \E o \in Objs : Poll(o)
    \/ \E o \in Objs : PollRefresh(o)
    \/ \E o \in Objs : InitTimeout(o)
    \/ \E o \in Objs : BoolOp(o)
    \/ \E o \in Objs : Close(o)
    \/ \E o \in Objs : Join(o)
    \/ \E o \in Objs : JoinClose(o)
    \/ \E o \in Objs, p \in PlacesWide, e \in ExtentsWide : MoveWindow(o, p, e)
    \/ \E o \in Objs : MoveWindowClose(o)
    \/ \E o \in Objs : MoveWindowMove(o)
    \/ \E o \in Objs, p \in PlacesWide : SetPosition(o, p)
    \/ \E o \in Objs : SetPositionClose(o)
    \/ \E o \in Objs : SetPositionSizeCheck(o)
    \/ \E o \in Objs : SizeClose(o)
    \/ \E o \in Objs : SizeRect(o)
    \/ \E o \in Objs : SetPositionMove(o)
    \/ \E o \in Objs, e \in ExtentsWide : SetSize(o, e)
    \/ \E o \in Objs : SetSizeClose(o)
    \/ \E o \in Objs : SetSizeRect(o)
    \/ \E o \in Objs : SetSizeMove(o)
    \/ \E o \in Objs : ReadSize(o)
    \/ RefreshOp
    \/ Os

SpecMove == Init /\ [][NextMove]_vars

----------------------------------------------------------------------------
(* Two threads in Window.__init__ for the same title, one line per step.   *)

Racers == {1, 2}

\* As Init, with one enabled window titled RaceTitle open on handle 1.
InitRace ==
    /\ handlers = << >>
    /\ hdlr = [o \in 1..NObj |-> 0]
    /\ st = [o \in 1..NObj |-> "none"]
    /\ acq = [o \in 1..NObj |-> NoAcq]
    /\ loc = [o \in 1..NObj |-> 0]
    /\ win = [h \in 1..NH |-> IF h = 1
                              THEN [exists |-> TRUE, enabled |-> TRUE, title |-> RaceTitle,
                                    rect |-> DefaultRect]
                              ELSE NoWindow]
    /\ closed = << >>
    /\ joined = << >>
    /\ cls = [o \in 1..NObj |-> NoCls]
    /\ frame = [o \in 0..NObj |-> NoFrame]
    /\ last = Quiet

\* A thread calls Window(RaceTitle): lines 29-31.
RaceStart(o) ==
    /\ st[o] = "none"
    /\ st' = [st EXCEPT ![o] = "init"]
    /\ acq' = [acq EXCEPT ![o] = [title |-> RaceTitle, left |-> MaxPolls, miss |-> TRUE,
                                   reg0 |-> << >>]]
    /\ last' = Did("new", o, "None", {})
    /\ UNCHANGED <<handlers, hdlr, loc, win, closed, joined, cls, frame>>

\* Lines 31-32: the timer yields once more and FindWindowExW is called.
RaceFind(o) ==
    /\ st[o] = "init"
    /\ ~TimerExhausted(acq[o])
    /\ \E found \in FindWindowExW(win, acq[o].title) :
         /\ loc' = [loc EXCEPT ![o] = found]
         /\ st' = [st EXCEPT ![o] = IF found # 0 THEN "line33" ELSE "init"]
         /\ acq' = [acq EXCEPT ![o].left = @ - 1, ![o].miss = @ /\ found = 0]
         /\ last' = [Did("init", o, "continue", {}) EXCEPT !.found = found]
    /\ UNCHANGED <<handlers, hdlr, win, closed, joined, cls, frame>>

\* Lines 41-43: the timer is exhausted.
RaceTimeout(o) ==
    /\ st[o] = "init"
    /\ TimerExhausted(acq[o])
    /\ st' = [st EXCEPT ![o] = "timeout"]
    /\ last' = Did("init", o, "TimeoutError", {})
    /\ UNCHANGED <<handlers, hdlr, acq, loc, win, closed, joined, cls, frame>>

\* Line 33: if hdlr in handlers.
RaceCheck(o) ==
    /\ st[o] = "line33"
    /\ st' = [st EXCEPT ![o] = IF loc[o] \in Keys(handlers) THEN "line34" ELSE "line38"]
    /\ last' = [Did("init", o, "continue", {}) EXCEPT !.found = loc[o]]
    /\ UNCHANGED <<handlers, hdlr, acq, loc, win, closed, joined, cls, frame>>

\* Line 34: a step of Window.refresh().
RaceRefresh(o) ==
    /\ st[o] = "line34"
    /\ LET f == IF frame[o].ref = "no" THEN RefreshBegun(handlers) ELSE frame[o]
       IN  \E honour \in RefreshMayClose(f, win, hdlr) :
             LET r == RefreshStep(f, handlers, win, hdlr, honour)
                 goeson == RefreshGoesOn(r.out)
             IN  /\ handlers' = r.reg
                 /\ win' = r.win
                 /\ closed' = Noted(closed, r.f.shut)
                 /\ st' = [st EXCEPT ![o] = CASE goeson -> "line34"
                                              [] r.out = "None" -> "line35"
                                              [] OTHER -> "error"]
                 /\ frame' = [frame EXCEPT ![o] = IF goeson THEN r.f ELSE NoFrame]
                 /\ last' = [Did("init", o,
                                 CASE goeson -> "line34"
                                   [] r.out = "None" -> "continue"
                                   [] OTHER -> r.out,
                                 r.f.sent) EXCEPT !.found = loc[o], !.dup = TRUE]
    /\ UNCHANGED <<hdlr, acq, loc, joined, cls>>

\* Lines 35-37: the handle is still registered, so hdlr = 0 and continue.
RaceRecheck(o) ==
    /\ st[o] = "line35"
    /\ IF loc[o] \in Keys(handlers)
       THEN /\ loc' = [loc EXCEPT ![o] = 0]
            /\ st' = [st EXCEPT ![o] = "init"]
       ELSE /\ loc' = loc
            /\ st' = [st EXCEPT ![o] = "line38"]
    /\ last' = [Did("init", o, "continue", {}) EXCEPT !.found = loc[o], !.dup = TRUE]
    /\ UNCHANGED <<handlers, hdlr, acq, win, closed, joined, cls, frame>>

\* Line 38: handlers[hdlr] = self.
RaceRegister(o) ==
    /\ st[o] = "line38"
    /\ handlers' = DictSet(handlers, loc[o], o)
    /\ st' = [st EXCEPT ![o] = "line39"]
    /\ last' = [Did("init", o, "continue", {}) EXCEPT !.found = loc[o]]
    /\ UNCHANGED <<hdlr, acq, loc, win, closed, joined, cls, frame>>

\* Lines 39-40: self.__hdlr = hdlr and break: the constructor returns.
RaceSetHdlr(o) ==
    /\ st[o] = "line39"
    /\ hdlr' = [hdlr EXCEPT ![o] = loc[o]]
    /\ st' = [st EXCEPT ![o] = "ok"]
    /\ last' = [Did("init", o, "None", {}) EXCEPT !.found = loc[o]]
    /\ UNCHANGED <<handlers, acq, loc, win, closed, joined, cls, frame>>

NextRace ==
    \/ \E o \in Racers : RaceStart(o)
    \/ \E o \in Racers : RaceFind(o)
    \/ \E o \in Racers : RaceTimeout(o)
    \/ \E o \in Racers : RaceCheck(o)
    \/ \E o \in Racers : RaceRefresh(o)
    \/ \E o \in Racers : RaceRecheck(o)
    \/ \E o \in Racers : RaceRegister(o)
    \/ \E o \in Racers : RaceSetHdlr(o)
    \/ Os

SpecRace == InitRace /\ [][NextRace]_vars

----------------------------------------------------------------------------
(* What the claims speak of.                                               *)

\* The handle of object o is a key of the registry and the OS reports the
\* window behind it as enabled.
RegisteredAndEnabledIn(o, reg, w, hd) ==
    /\ \E i \in 1..Len(reg) : reg[i].k = hd[o]
    /\ hd[o] \in DOMAIN w
    /\ w[hd[o]].exists
    /\ w[hd[o]].enabled

RegisteredAndEnabled(o) == RegisteredAndEnabledIn(o, handlers, win, hdlr)

\* The objects the registry holds.
Values(reg) == {reg[i].v : i \in 1..Len(reg)}

MoveOps == {"move_window", "set_position", "set_size"}

\* Window.close has run on o; a join of o has returned.
WasClosed(o) == o \in DOMAIN closed /\ closed[o]
WasJoined(o) == o \in DOMAIN joined /\ joined[o]

\* The step ends the Window.refresh that o's constructor called at line 34.
EndsRefreshOf(o) == st[o] = "line34" /\ st'[o] # "line34"

\* C1: when a poll of the constructor finds a handle that is registered to a live
\* owner and is still registered after the one call of refresh, the handle stays
\* mapped to that owner, the new object gets neither the entry nor the handle,
\* and the constructor keeps polling.
C1_DedupKeepsPolling ==
    [][\A o \in Objs :
         (/\ EndsRefreshOf(o)
          /\ loc[o] \in Keys(handlers)
          /\ loc[o] \in Keys(handlers')
          /\ RegisteredAndEnabledIn(Owner(handlers, loc[o]), handlers', win', hdlr'))
         => (/\ Owner(handlers', loc[o]) = Owner(handlers, loc[o])
             /\ hdlr'[o] = 0
             /\ last'.ret = "continue"
             /\ st'[o] = "init")]_vars

\* C2: right after close the object's handle is not in the registry, and every
\* later liveness check on an object that was closed returns False.
C2_ClosedStaysDead ==
    /\ last.op = "close" => hdlr[last.obj] \notin Keys(handlers)
    /\ (last.op = "bool" /\ WasClosed(last.obj)) => last.ret = "False"

\* C3: when a poll of the constructor finds a handle registered to an owner that
\* refresh finds not live, refresh evicts the entry (the close message goes to
\* the handle) and returns, and the same poll registers the handle to the new
\* object: the constructor returns with it and raises nothing.
C3_StaleOwnerTakeover ==
    [][\A o \in Objs :
         (EndsRefreshOf(o) /\ loc[o] \in last'.sent)
         => (/\ last'.ret = "None"
             /\ loc[o] \in Keys(handlers')
             /\ Owner(handlers', loc[o]) = o
             /\ hdlr'[o] = loc[o])]_vars

\* C4: refresh returns normally, and by then every registered object it found
\* not live has been sent the close message and is unregistered, while every
\* entry that is left was found live and was sent nothing.
C4_RefreshPostcondition ==
    [][(last'.op = "refresh" /\ ~RefreshGoesOn(last'.ret))
       => (/\ last'.ret = "None"
           /\ \A o \in frame[0].shut : /\ hdlr[o] \in last'.sent
                                       /\ hdlr[o] \notin Keys(handlers')
           /\ \A i \in 1..Len(handlers') : handlers'[i].k \notin last'.sent
           /\ frame[0].ref # "no" => frame[0].pos > Len(handlers'))]_vars

\* The lines at which move_window, set_position and set_size stand when their
\* liveness test has found the object not live: self.close() is the next step.
DeadMoveLines == {"line88", "line111", "line127"}

\* C5: move_window, set_position and set_size called on an object that is not
\* live go on to self.close() without calling User32.MoveWindow, and that close
\* sends the close message, unregisters the handle and ends the call with
\* False; the object is not live afterwards, so a repeated call does the same.
C5_DeadMoveSelfCloses ==
    [][\A o \in Objs :
         /\ (/\ st[o] = "ok"
             /\ last'.op \in MoveOps
             /\ last'.obj = o
             /\ ~RegisteredAndEnabled(o))
              => (/\ st'[o] \in DeadMoveLines
                  /\ ~last'.moved
                  /\ win' = win)
         /\ (st[o] \in DeadMoveLines /\ st'[o] # st[o])
              => (/\ last'.op \in MoveOps
                  /\ last'.obj = o
                  /\ last'.ret = "False"
                  /\ st'[o] = "ok"
                  /\ ~last'.moved
                  /\ hdlr[o] \in last'.sent
                  /\ hdlr[o] \notin Keys(handlers')
                  /\ win' \in {win, [win EXCEPT ![hdlr[o]] = NoWindow]}
                  /\ ~RegisteredAndEnabledIn(o, handlers', win', hdlr'))]_vars

\* A dead set_position has returned False while the window is enabled: the
\* OS enabled it while self.close() slept, and it did not honour the message.
C5_Witness ==
    /\ last.op = "set_position"
    /\ last.ret = "False"
    /\ win[hdlr[last.obj]].exists
    /\ win[hdlr[last.obj]].enabled
    /\ hdlr[last.obj] \in last.sent
    /\ hdlr[last.obj] \notin Keys(handlers)

\* C6: a constructor none of whose polls found a window with the title raises
\* TimeoutError only when the timer has no poll left, with the registry as it was
\* when the constructor began and no entry and no handle for the object; and a
\* constructor whose timer has no poll left polls no more.
C6_TimeoutAfterAllPolls ==
    /\ (last.op = "init" /\ last.ret = "TimeoutError" /\ last.miss)
         => /\ last.left = 0
            /\ last.same
            /\ last.obj \notin Values(handlers)
            /\ hdlr[last.obj] = 0
    /\ \A o \in Objs : st[o] \in {"init", "line34"} => acq[o].left \in 0..MaxPolls
    /\ \A o \in Objs : (st[o] = "init" /\ acq[o].left = 0)
                          => ENABLED InitTimeout(o) /\ ~ENABLED Poll(o)

\* A timeout after polls that all found nothing, with another object registered.
C6_Witness ==
    /\ last.op = "init"
    /\ last.ret = "TimeoutError"
    /\ last.miss
    /\ handlers # << >>

\* C7: when join returns, the close message has been sent and the object's handle
\* is not in the registry; and every later liveness check on an object whose join
\* has returned gives False.
C7_JoinPostcondition ==
    /\ (last.op = "join" /\ last.ret = "None")
         => /\ hdlr[last.obj] \in last.sent
            /\ hdlr[last.obj] \notin Keys(handlers)
    /\ (last.op = "bool" /\ WasJoined(last.obj)) => last.ret = "False"

\* C8: two constructors racing for the same title never both hold the same
\* handle as their acquired handle.
C8_RaceOneOwner ==
    \A a, b \in Racers : (a # b /\ hdlr[a] # 0) => hdlr[a] # hdlr[b]

\* C9: close always sends the close message and returns SendMessageW's response,
\* and close on an object that was closed before leaves the registry as it is.
C9_RepeatedCloseKeepsRegistry ==
    [][last'.op = "close"
       => (/\ hdlr[last'.obj] \in last'.sent
           /\ last'.ret = "res"
           /\ WasClosed(last'.obj) => handlers' = handlers)]_vars

\* C10: bool(o) is True exactly when o's handle is a key of the registry and the
\* OS reports its window as enabled, and evaluating it changes neither the
\* registry nor the windows.
C10_CoreLiveness ==
    [][last'.op = "bool"
       => (/\ last'.ret \in {"True", "False"}
           /\ (last'.ret = "True") <=> RegisteredAndEnabled(last'.obj)
           /\ handlers' = handlers
           /\ win' = win)]_vars

\* bool(o) is False for an object whose handle is not registered although the
\* window behind the handle value is enabled.
C10_Witness ==
    /\ last.op = "bool"
    /\ last.ret = "False"
    /\ win[hdlr[last.obj]].exists
    /\ win[hdlr[last.obj]].enabled

\* C13: a poll made while the timer has polls left that finds a handle that is
\* not registered registers it to the new object in that same poll, sets the
\* object's handle to it and ends the constructor without an exception; a poll
\* that finds no window (0) changes neither the registry, the handles nor the
\* windows, sends nothing, and the constructor keeps polling.
C13_FreshHandleAcquired ==
    [][(/\ last'.op = "init"
        /\ st[last'.obj] = "init"
        /\ ~TimerExhausted(acq[last'.obj]))
       => (/\ (last'.found # 0 /\ last'.found \notin Keys(handlers))
                => /\ handlers' = Append(handlers, [k |-> last'.found, v |-> last'.obj])
                   /\ hdlr' = [hdlr EXCEPT ![last'.obj] = last'.found]
                   /\ st'[last'.obj] = "ok"
                   /\ last'.ret = "None"
                   /\ last'.sent = {}
           /\ last'.found = 0
                => /\ handlers' = handlers
                   /\ hdlr' = hdlr
                   /\ win' = win
                   /\ st'[last'.obj] = "init"
                   /\ last'.ret = "continue"
                   /\ last'.sent = {})]_vars

\* A constructor has just returned with a handle that was not registered before.
C13_Witness ==
    /\ last.op = "init"
    /\ last.ret = "None"
    /\ ~last.dup
    /\ last.found # 0
    /\ Owner(handlers, last.found) = last.obj
    /\ hdlr[last.obj] = last.found

\* C17: every key of the registry is a nonzero handle, the object stored under a
\* key has that key as its handle, and it is an object whose constructor
\* returned: an object whose constructor raised, or is still running, is never
\* a value of the registry.
C17_RegistryWellFormed ==
    \A i \in 1..Len(handlers) :
        /\ handlers[i].k # 0
        /\ hdlr[handlers[i].v] = handlers[i].k
        /\ st[handlers[i].v] \notin {"none", "init", "line34"}

\* A constructor has just raised TimeoutError after finding only a handle that
\* another object owns, and that owner's entry is in the registry.
C17_Witness ==
    /\ last.op = "init"
    /\ last.ret = "TimeoutError"
    /\ ~last.miss
    /\ handlers # << >>
    /\ st[last.obj] = "none"

\* The entries a step put into the registry and those it took out.
Entries(reg) == {reg[i] : i \in 1..Len(reg)}
Inserted == Entries(handlers') \ Entries(handlers)
Removed == Entries(handlers) \ Entries(handlers')

\* The step ran Window.close on the object of the call: close itself, the end
\* of join, or the close of a move_window, set_position or set_size that found
\* the object not live.
ByClose ==
    /\ \/ last'.op = "close"
       \/ last'.op = "join" /\ last'.ret = "None"
       \/ last'.op \in MoveOps /\ hdlr[last'.obj] \in last'.sent
    /\ \A e \in Removed : e.k = hdlr[last'.obj]

\* The step is one of Window.refresh: called on the class, or by a poll of the
\* constructor that found a registered handle.
ByRefresh ==
    \/ last'.op = "refresh"
    \/ last'.op = "init" /\ last'.dup

\* The step is the close of a read of size that found the object not live.
ByDeadSize ==
    /\ last'.op = "size"
    /\ last'.val = <<-1, -1>>
    /\ \A e \in Removed : e.k = hdlr[last'.obj]

\* The step is a constructor's that ended the constructor without an
\* exception, and the entry is the one of its object and the handle it found.
BySuccessfulAcquisition ==
    /\ last'.op = "init"
    /\ last'.ret = "None"
    /\ Inserted = {[k |-> last'.found, v |-> last'.obj]}

\* C16: an entry enters the registry only in the step in which an acquisition
\* succeeds, and leaves it only in a step that runs close (close itself, the end
\* of join, a move or resize on an object that is not live) or refresh; a step
\* of the OS, such as the closing of a window, leaves the registry as it is.
C16_RegistryLifecycle ==
    [][/\ Inserted # {} => BySuccessfulAcquisition
       /\ Removed # {} => (ByClose \/ ByRefresh)
       /\ last'.op = "os" => handlers' = handlers]_vars

\* C16 as amended: an entry also leaves the registry when size is read on an
\* object that is not live, which runs close.
C16_RegistryLifecycleWithSize ==
    [][/\ Inserted # {} => BySuccessfulAcquisition
       /\ Removed # {} => (ByClose \/ ByRefresh \/ ByDeadSize)
       /\ last'.op = "os" => handlers' = handlers]_vars

\* The OS has just acted, and a window it closed on its own still has its
\* entry in the registry.
C16_Witness ==
    /\ last.op = "os"
    /\ \E i \in 1..Len(handlers) : ~win[handlers[i].k].exists

\* The class of o tests the window's title: the title the OS reports for o's
\* handle, and whether it is the first title.
TitleTested(o) ==
    \/ cls[o].kind = "RecycleBinFolder"
    \/ cls[o].kind = "Explorer" /\ cls[o].chdir # "True"

TitleIsFirst(o) == GetWindowTextW(win, hdlr[o]) = cls[o].first

\* C11: bool(o) of a RecycleBinFolder is True exactly when o's handle is
\* registered, the OS reports its window as enabled and then reports the fixed
\* first title as its title; bool(o) of an Explorer is True exactly when the
\* handle is registered, the window is reported enabled and either allow_chdir
\* is set (the title is not read) or the title then reported is the first title
\* the constructor captured. Hence a changed title makes a RecycleBinFolder and
\* an Explorer without allow_chdir not live and does not matter to an Explorer
\* with allow_chdir, no object is live whose handle is not registered or whose
\* window is not enabled, and the evaluation changes nothing.
C11_VariantLiveness ==
    [][last'.op = "bool"
       => LET o == last'.obj
          IN  /\ st[o] = "ok"
                   => /\ ~RegisteredAndEnabled(o) => last'.ret = "False"
                      /\ (RegisteredAndEnabled(o) /\ ~TitleTested(o)) => last'.ret = "True"
                      /\ (RegisteredAndEnabled(o) /\ TitleTested(o))
                           => (last'.ret = "half" /\ st'[o] = "line45")
              /\ st[o] = "line45"
                   => /\ TitleTested(o)
                      /\ cls[o].kind = "RecycleBinFolder" => cls[o].first = TrashTitle
                      /\ (last'.ret = "True") <=> TitleIsFirst(o)
                      /\ (last'.ret = "False") <=> ~TitleIsFirst(o)
              /\ last'.ret \in {"True", "False"} <=> st'[o] = "ok"
              /\ handlers' = handlers
              /\ win' = win]_vars

\* bool(o) is False for an Explorer without allow_chdir whose handle is
\* registered and whose window is enabled under another title than the first.
C11_Witness ==
    /\ last.op = "bool"
    /\ last.ret = "False"
    /\ cls[last.obj].kind = "Explorer"
    /\ cls[last.obj].chdir = "False"
    /\ RegisteredAndEnabled(last.obj)
    /\ cls[last.obj].first \in Folders
    /\ win[hdlr[last.obj]].title # cls[last.obj].first

\* C12: Explorer's constructor validates the path first, and when the path is
\* not valid the call ends in that step with the error: nothing was launched, no
\* poll was made, registry and windows are as before. Otherwise Window.__init__
\* is entered only by the step in which the launch returned, every poll comes
\* after the launch, and allow_chdir and first_title are set only in the step
\* that follows the successful acquisition, on a registered object.
C12_ExplorerOrdering ==
    [][/\ (last'.op = "Explorer" /\ last'.ret = "InvalidTarget")
            => /\ st[last'.obj] = "none"
               /\ ~cls'[last'.obj].launched
               /\ UNCHANGED <<handlers, hdlr, st, acq, win, closed, cls>>
       /\ \A o \in Objs :
            /\ (cls'[o].kind = "Explorer" /\ st'[o] = "init" /\ st[o] # "init")
                 => /\ last'.op = "launch"
                    /\ st[o] = "line216"
                    /\ cls'[o].launched
            /\ (last'.op = "init" /\ last'.obj = o /\ cls[o].kind = "Explorer")
                 => cls[o].launched
            /\ (/\ cls'[o].kind = "Explorer"
                /\ \/ cls'[o].chdir # cls[o].chdir
                   \/ cls'[o].first # cls[o].first)
                 => /\ st[o] = "line219"
                    /\ hdlr[o] # 0
                    /\ hdlr[o] \in Keys(handlers)
                    /\ Owner(handlers, hdlr[o]) = o
                    /\ cls'[o].chdir = cls[o].allow
            /\ (cls[o].kind = "Explorer" /\ st[o] \in {"line216", "init"})
                 => (cls[o].chdir = "unset" /\ cls[o].first = "")]_vars

\* Explorer was called with a path that is not valid while a window with the
\* folder's title is open: the validator's error, nothing launched or registered.
C12_Witness ==
    /\ last.op = "Explorer"
    /\ last.ret = "InvalidTarget"
    /\ \E h \in Handles : win[h].exists /\ win[h].title \in Folders
    /\ handlers = << >>
    /\ ~cls[last.obj].launched

\* Liveness as the class of o defines it, on the current state.
Live(o) ==
    /\ RegisteredAndEnabled(o)
    /\ TitleTested(o) => TitleIsFirst(o)

Accessors == {"handler", "rect", "size", "title", "first_title", "bool"}

\* C18: reading handler, rect, size, title or first_title, or evaluating bool, on
\* any object leaves the registry as it is and sends no close message.
C18_ReadOnlyAccessors ==
    [][last'.op \in Accessors
       => (handlers' = handlers /\ last'.sent = {})]_vars

\* C18 as amended: so it is for handler, rect, title, first_title and bool on
\* any object and for size on a live object; a read of size whose liveness test
\* finds the object not live sends the close message, unregisters the handle
\* and returns (-1, -1).
C18_ReadOnlyExceptDeadSize ==
    [][/\ last'.op \in Accessors
            => IF last'.op = "size" /\ st[last'.obj] = "line152"
               THEN /\ last'.sent = {hdlr[last'.obj]}
                    /\ hdlr[last'.obj] \notin Keys(handlers')
                    /\ last'.val = <<-1, -1>>
                    /\ st'[last'.obj] = "ok"
               ELSE /\ handlers' = handlers
                    /\ win' = win
                    /\ last'.sent = {}
       /\ \A o \in Objs :
            (last'.op = "size" /\ last'.obj = o /\ st'[o] = "line152")
                 => ~Live(o)]_vars

\* size was read on an object whose window had got another title: the close
\* message was sent and the object's entry is gone.
C18_Witness ==
    /\ last.op = "size"
    /\ last.val = <<-1, -1>>
    /\ cls[last.obj].kind # "Window"
    /\ last.sent = {hdlr[last.obj]}
    /\ hdlr[last.obj] \notin Keys(handlers)
    /\ win[hdlr[last.obj]].exists
    /\ win[hdlr[last.obj]].enabled

\* A join is running on o.
InJoin(o) == st[o] \in {"joining", "line71", "line73"}

\* Join leaves its loop only from a call of its liveness test made when the
\* object was not live, and stays in it after one made when the object was
\* live; and it returns only by line 73.
JoinLeavesWhenNotLive ==
    [][\A o \in Objs :
         /\ (st[o] \in {"joining", "line71"} /\ st'[o] = "line73")
              => (last'.op = "join" /\ last'.obj = o /\ ~Live(o))
         /\ (last'.op = "join" /\ last'.obj = o /\ st[o] # "line73" /\ Live(o))
              => st'[o] \in {"joining", "line71"}
         /\ (InJoin(o) /\ ~InJoin(o)')
              => (st[o] = "line73" /\ last'.op = "join" /\ last'.ret = "None")]_vars

\* C14: join has no timeout: it leaves its loop only when its liveness test
\* found the object not live; and a join that runs on an object that is not
\* live returns unless the object gets live again: when the object stays not
\* live, join returns.
C14_JoinTermination ==
    /\ JoinLeavesWhenNotLive
    /\ (InJoin(1) /\ ~Live(1)) ~> (~InJoin(1) \/ Live(1))

\* C14 as amended: a join returns when the handle stays unregistered or the
\* window stays not enabled, and, for an object whose class tests the title,
\* when the title stays another than the first title.
C14_JoinTerminationPerTest ==
    /\ JoinLeavesWhenNotLive
    /\ (InJoin(1) /\ ~RegisteredAndEnabled(1))
          ~> (~InJoin(1) \/ RegisteredAndEnabled(1))
    /\ (InJoin(1) /\ TitleTested(1) /\ ~TitleIsFirst(1))
          ~> (~InJoin(1) \/ TitleIsFirst(1))

\* The join of an Explorer without allow_chdir has returned after the window's
\* title changed: the window is enabled under another title than the first.
C14_Witness ==
    /\ last.op = "join"
    /\ last.ret = "None"
    /\ cls[1].kind = "Explorer"
    /\ cls[1].first \in Folders
    /\ win[hdlr[1]].exists
    /\ win[hdlr[1]].enabled
    /\ win[hdlr[1]].title # cls[1].first

\* C15: whenever set_position calls User32.MoveWindow it passes the position it
\* was called with and the width and height of the window's rectangle, and
\* whenever set_size calls it it passes the left and top of the window's
\* rectangle and the extent it was called with; also when the window is closed
\* or the object stops being live between the steps of the call, the call is
\* never made with the size (-1, -1) nor after the call has closed the object.
C15_MoveGeometry ==
    [][(last'.op \in {"set_position", "set_size"} /\ last'.moved)
       => LET o == last'.obj
              r == GetWindowRect(win, hdlr[o])
          IN  /\ <<last'.args[3], last'.args[4]>> # <<-1, -1>>
              /\ frame[o].shut = {}
              /\ hdlr[o] \in Keys(handlers)
              /\ (last'.op = "set_position" /\ win[hdlr[o]].exists)
                   => last'.args = <<frame[o].x, frame[o].y,
                                     Abs(r[1] - r[3]), Abs(r[2] - r[4])>>
              /\ (last'.op = "set_size" /\ win[hdlr[o]].exists)
                   => last'.args = <<r[1], r[2], frame[o].w, frame[o].h>>]_vars

====
